---- MODULE Spec2Model ----
(***************************************************************************)
(* Model of the vizia runtime core: Application::new, Application::run and *)
(* the callbacks of its event loop (src/src/application.rs).  The tick     *)
(* (MainEventsCleared) is modelled statement group by statement group with *)
(* a program counter; platform callbacks run only between ticks, as the    *)
(* event loop is single threaded.  Tree, model store, event manager and    *)
(* the views are collaborators whose code is outside application.rs; they  *)
(* are modelled from their documented contract.                            *)
(***************************************************************************)
EXTENDS Integers, Sequences, FiniteSets, TLC

\* ------------------------------------------------------------------ bounds
\* Capacity of the event queue in the model (VecDeque is unbounded).
MaxQueue == 2

\* ---------------------------------------------------------------- entities
\* Entity::root(), always id 0.
Root == 0
\* Entity::null(), the "no entity" sentinel.
Null == Root - 1
\* The entities the application of the model creates: root -> [1 -> [3], 2].
Entities == {Root, 1, 2, 3}
\* The children the view of an entity builds, in build order.
BuiltChildren == [e \in Entities |-> IF e = Root THEN <<1, 2>> ELSE IF e = 1 THEN <<3>> ELSE <<>>]
\* The models the application attaches: owner -> ordered list of models, each
\* with its observers (in the order update() reports them).
BuiltModels == [e \in Entities |->
    IF e = Root THEN << [observers |-> <<1, 2>>, dirty |-> FALSE],
                        [observers |-> <<2>>, dirty |-> FALSE] >>
    ELSE IF e = 1 THEN << [observers |-> <<3, 2>>, dirty |-> FALSE] >>
    ELSE <<>>]

\* ------------------------------------------------------------------- tree
\* Tree::new(): only the root, no parent, no children.
EmptyTree == [parent |-> [e \in Entities |-> Null], children |-> [e \in Entities |-> <<>>]]

InTree(t, e) == e = Root \/ (e \in Entities /\ t.parent[e] # Null)

RECURSIVE SeqRemove(_, _)
SeqRemove(s, x) ==
    IF s = <<>> THEN <<>>
    ELSE IF Head(s) = x THEN SeqRemove(Tail(s), x)
    ELSE <<Head(s)>> \o SeqRemove(Tail(s), x)

SeqHas(s, x) == \E i \in 1..Len(s) : s[i] = x

\* Tree::iter(): pre-order depth-first sequence of the subtree of e.
RECURSIVE PreOrder(_, _)
RECURSIVE PreOrderList(_, _)
PreOrder(t, e) == <<e>> \o PreOrderList(t, t.children[e])
PreOrderList(t, cs) == IF cs = <<>> THEN <<>> ELSE PreOrder(t, Head(cs)) \o PreOrderList(t, Tail(cs))

TreeIter(t) == PreOrder(t, Root)

SeqSet(s) == {s[i] : i \in 1..Len(s)}

\* Tree insert: child appended to the parent's children (no-op when present).
TreeInsert(t, p, c) ==
    IF InTree(t, c) THEN t
    ELSE [parent |-> [t.parent EXCEPT ![c] = p],
          children |-> [t.children EXCEPT ![p] = Append(@, c)]]

\* Tree remove: the entity and all its descendants leave the tree.
TreeRemove(t, e) ==
    IF e = Root \/ ~InTree(t, e) THEN t
    ELSE LET gone == SeqSet(PreOrder(t, e))
             p == t.parent[e]
         IN [parent |-> [x \in Entities |-> IF x \in gone THEN Null ELSE t.parent[x]],
             children |-> [x \in Entities |->
                  IF x \in gone THEN <<>>
                  ELSE IF x = p THEN SeqRemove(t.children[x], e)
                  ELSE t.children[x]]]

\* The ancestor chain of e, inclusive, from e up to the root.  An entity that is
\* not in the tree (or the null entity) has no ancestors.
RECURSIVE UpChain(_, _)
UpChain(t, e) ==
    IF e = Root \/ ~InTree(t, e) THEN <<e>>
    ELSE <<e>> \o UpChain(t, t.parent[e])

RECURSIVE Reverse(_)
Reverse(s) == IF s = <<>> THEN <<>> ELSE Reverse(Tail(s)) \o <<Head(s)>>

\* ----------------------------------------------------------------- events
\* NewEvent without the call of target(t).
NewEventNoTarget(kind, t, p) == [kind |-> kind, target |-> Root - 1, prop |-> p]

\* Event::new(message).target(t).propagate(p)
NewEvent(kind, t, p) == [kind |-> kind, target |-> t, prop |-> p]

NoEvent == NewEvent("None", Null, "Direct")

\* push_front in place of push_back.
PushFront(q, e) == <<e>> \o q

\* VecDeque::push_back
PushBack(q, e) == Append(q, e)

\* KeyTarget without the focus test.
KeyTargetHovered(foc, hov) == hov

\* The target of a key event: the focused entity unless it is null, else the
\* hovered entity.
KeyTarget(foc, hov) == IF foc # Null THEN foc ELSE hov

\* The propagation path of an event: the steps the dispatcher takes, each a
\* phase and the entity visited.
Steps(phase, chain) == [i \in 1..Len(chain) |-> [phase |-> phase, entity |-> chain[i]]]

\* PropagationPath with the capturing pass run target to root.
PropagationPathUpOnly(t, e, prop) ==
    CASE prop = "Direct" -> Steps("direct", <<e>>)
      [] prop = "Up"     -> Steps("up", UpChain(t, e))
      [] prop = "Down"   -> Steps("down", UpChain(t, e))
      [] prop = "DownUp" -> Steps("down", UpChain(t, e)) \o Steps("up", UpChain(t, e))

PropagationPath(t, e, prop) ==
    CASE prop = "Direct" -> Steps("direct", <<e>>)
      [] prop = "Up"     -> Steps("up", UpChain(t, e))
      [] prop = "Down"   -> Steps("down", Reverse(UpChain(t, e)))
      [] prop = "DownUp" -> Steps("down", Reverse(UpChain(t, e))) \o Steps("up", UpChain(t, e))

\* ----------------------------------------------------------------- models
\* The positions <<owner, index>> of the models in a model store.
ModelIds(md) == {<<e, i>> : e \in Entities, i \in 1..2} \cap
                {m \in Entities \X (1..2) : m[2] <= Len(md[m[1]])}

\* model.is_dirty()
IsDirty(model) == model.dirty

\* model.update(): the observers to notify
Update(model) == model.observers

\* model.reset(): clears the dirty flag, nothing else
Reset(model) == [model EXCEPT !.dirty = FALSE]

MarkDirty(md, m) == [md EXCEPT ![m[1]][m[2]].dirty = TRUE]

\* GatherObservers without the is_dirty test.
RECURSIVE GatherObserversAll(_)
GatherObserversAll(model_list) ==
    IF model_list = <<>> THEN <<>>
    ELSE Update(Head(model_list)) \o GatherObserversAll(Tail(model_list))

\* The observers gathered for one entity: those of its dirty models, in the
\* stored order of the models, duplicates kept (Vec::extend).
RECURSIVE GatherObservers(_)
GatherObservers(model_list) ==
    IF model_list = <<>> THEN <<>>
    ELSE (IF IsDirty(Head(model_list)) THEN Update(Head(model_list)) ELSE <<>>)
         \o GatherObservers(Tail(model_list))

\* ResetAll without the calls of reset.
ResetAllSkipped(model_list) == model_list

\* for model in model_list.iter_mut() { model.reset() }
ResetAll(model_list) == [i \in 1..Len(model_list) |-> Reset(model_list[i])]

\* ------------------------------------------------- application code (views)
\* What a handler, a view body or the builder closure may do to the context in
\* one invocation: an operation and the model it applies to.
NoModel == <<Root, 0>>
Effect(op, m) == <<op, m>>
E(op) == Effect(op, NoModel)
DirtyEffects(md) == {Effect("dirty", m) : m \in ModelIds(md)}

\* The applications of the model, each a builder closure handed to
\* Application::new: what its handlers, its view bodies and the closure do.
\*   form:   a stack (1) holding a button (3) that emits events, and a textbox
\*           (2) that takes and drops the focus; all may consume events;
\*   data:   views bound to models, which handlers and bodies change;
\*   tree:   views whose bodies build and remove their children;
\*   locale: handlers and a closure that request a rebuild.
Builders == {"form", "data", "tree", "locale"}
HandlerEffects(b, e, md) ==
    CASE b = "form"   -> {E("none"), E("consume")} \cup
                         (IF e = 2 THEN {E("focus"), E("blur")} ELSE {}) \cup
                         (IF e = 3 THEN {E("emit")} ELSE {})
      [] b = "data"   -> {E("none")} \cup DirtyEffects(md)
      [] b = "tree"   -> {E("none")} \cup DirtyEffects(md)
      [] b = "locale" -> {E("none"), E("rebuild")}
BodyEffects(b, md) ==
    CASE b = "form"   -> {E("none")}
      [] b = "data"   -> {E("none"), E("emit")} \cup DirtyEffects(md)
      [] b = "tree"   -> {E("none"), E("build"), E("remove")}
      [] b = "locale" -> {E("none"), E("rebuild")}
BuilderEffects(b) == IF b = "locale" THEN {E("none"), E("rebuild")} ELSE {E("none")}
\* The models the closure attaches to a newly built entity.
ModelsOf(b, e) == IF b \in {"form", "locale"} THEN <<>> ELSE BuiltModels[e]
\* The models the closure may have changed before the first tick.
InitiallyDirty(b) == IF b = "data" THEN SUBSET ModelIds(BuiltModels) ELSE {{}}

\* ------------------------------------------------------------------ state
VARIABLES
    builder,        \* self.builder: the application's top-level closure
    pc,             \* position of the event loop / of the tick in progress
    tree,           \* context.tree
    views,          \* context.views: the entities with a registered view
    model_data,     \* context.data.model_data: owner -> list of models
    current,        \* context.current, the insertion cursor
    count,          \* context.count, the child counter
    event_queue,    \* context.event_queue
    hovered,        \* context.hovered
    focused,        \* context.focused
    needs_rebuild,  \* context.enviroment.needs_rebuild
    ev,             \* the event being dispatched
    path,           \* its propagation path
    step,           \* the next step of the path
    consumed,       \* the event's consumed mark
    snapshot,       \* the entities the update loop has still to visit
    entity,         \* the update loop's entity
    observers,      \* the observers gathered for it
    oi,             \* the next observer to rebuild
    view,           \* the view checked out of the registry (Null: none)
    prev,           \* saved context.current
    prev_count,     \* saved context.count
    hist            \* history of the tick in progress (observation only)

vars == <<builder, pc, tree, views, model_data, current, count, event_queue, hovered, focused,
          needs_rebuild, ev, path, step, consumed, snapshot, entity, observers, oi,
          view, prev, prev_count, hist>>

ctx == <<builder, tree, views, model_data, current, count, event_queue, hovered, focused, needs_rebuild>>
dispatchVars == <<ev, path, step, consumed>>
updateVars == <<snapshot, entity, observers, oi, view, prev, prev_count>>

\* The history of one tick, cleared when the tick returns.
NoHist == [phases |-> <<>>,          \* the phases begun, in order
           needsAtStart |-> FALSE,   \* needs_rebuild when the tick started
           pendingAtStart |-> FALSE, \* pending, when the tick started
           dirtyAtStart |-> {},      \* the models dirty when the tick started
           builderCalls |-> 0,       \* invocations of the top-level builder
           builderAt |-> Null,       \* the insertion cursor it was invoked with
           redraws |-> 0,            \* redraw requests
           dispatched |-> FALSE,     \* an event was taken off the queue
           rebuilt |-> [e \in Entities |-> 0],  \* body runs per entity
           visited |-> <<>>,         \* steps taken for the event being dispatched
           ops |-> <<>>,             \* update/body/reset operations of the entity pass
           marked |-> FALSE,         \* a handler or a body changed a model
           pending |-> FALSE,        \* a rebuild was requested since the builder last started
           focusSet |-> FALSE,       \* a view has set the focus since creation
           painted |-> FALSE,        \* a frame was painted since the last tick
           treeAtUpdate |-> EmptyTree,  \* the tree when the update phase started
           passes |-> <<>>,          \* the entities the update loop has visited
           late |-> {},              \* the models a body changed in the entity pass
           skips |-> <<>>,           \* the observers of the pass found without a view
           currentAtUpdate |-> Root, \* context.current when the update phase started
           countAtUpdate |-> 0]      \* context.count when the update phase started

\* One step of a dispatch: the phase, the entity, whether its view's handler
\* was called and whether it consumed the event.
Visit(s, handled, cons) ==
    [phase |-> s.phase, entity |-> s.entity, handled |-> handled, consumed |-> cons]

\* Application::new
Init ==
    /\ builder \in Builders
    /\ pc = "new"
    /\ tree = EmptyTree
    /\ views = {}
    /\ model_data = [e \in Entities |-> <<>>]
    /\ current = Root
    /\ count = 0
    /\ event_queue = <<>>
    /\ hovered = Root
    /\ focused = Root
    /\ needs_rebuild = FALSE
    /\ ev = NoEvent /\ path = <<>> /\ step = 1 /\ consumed = FALSE
    /\ snapshot = <<>> /\ entity = Null /\ observers = <<>> /\ oi = 1
    /\ view = Null /\ prev = Root /\ prev_count = 0
    /\ hist = NoHist

\* An effect may enqueue only while the queue of the model has room.
Allowed(eff, q) == eff[1] = "emit" => Len(q) < MaxQueue

\* The queue after an invocation on entity e with effect eff.
QueueAfter(eff, e, q) ==
    IF eff[1] = "emit" THEN PushBack(q, NewEvent("Custom", e, "Direct")) ELSE q

FlagAfter(eff, nr) == IF eff[1] = "rebuild" THEN TRUE ELSE nr

ModelsAfter(eff, md) == IF eff[1] = "dirty" THEN MarkDirty(md, eff[2]) ELSE md

FocusAfter(eff, e, foc) ==
    IF eff[1] = "focus" THEN e ELSE IF eff[1] = "blur" THEN Null ELSE foc

\* Building the views below e: every child the view of e builds is inserted
\* where missing, then builds its own children.
RECURSIVE BuildSubtree(_, _)
RECURSIVE BuildChildren(_, _, _)
BuildSubtree(t, e) == BuildChildren(t, e, BuiltChildren[e])
BuildChildren(t, p, cs) ==
    IF cs = <<>> THEN t
    ELSE BuildChildren(BuildSubtree(TreeInsert(t, p, Head(cs)), Head(cs)), p, Tail(cs))

\* The entities strictly below e.
Descendants(t, e) == SeqSet(PreOrder(t, e)) \ {e}

\* The models of newly built owners are attached; existing ones are kept.
AttachModels(b, md, es) ==
    [e \in Entities |-> IF e \in es /\ md[e] = <<>> THEN ModelsOf(b, e) ELSE md[e]]

\* Removing an entity releases the views and models of its subtree.
ReleaseModels(md, es) == [e \in Entities |-> IF e \in es THEN <<>> ELSE md[e]]

\* The child a body removes: the first child of the entity (none: Null).
FirstChild(t, e) == IF t.children[e] = <<>> THEN Null ELSE Head(t.children[e])

\* --------------------------------------------------------- control flow
\* NextPhase with the event flush placed before the rebuild.
NextPhaseFlushFirst(at, nr) ==
    CASE at = "start"  -> "flush"
      [] at = "flush"  -> IF nr THEN "builder" ELSE "update"
      [] at = "clear"  -> "update"
      [] at = "update" -> "layout"
      [] at = "layout" -> "redraw"
      [] at = "redraw" -> "done"

\* NextPhase with a second event flush after the update phase.
NextPhaseFlushAgain(at, nr) ==
    CASE at = "start"  -> IF nr THEN "builder" ELSE "flush"
      [] at = "clear"  -> "flush"
      [] at = "flush"  -> "update"
      [] at = "update" -> "flush"
      [] at = "layout" -> "redraw"
      [] at = "redraw" -> "done"

\* The order of the phases of a tick: the pc that follows position `at`.
NextPhase(at, nr) ==
    CASE at = "start"  -> IF nr THEN "builder" ELSE "flush"
      [] at = "clear"  -> "flush"
      [] at = "flush"  -> "update"
      [] at = "update" -> "layout"
      [] at = "layout" -> "redraw"
      [] at = "redraw" -> "done"

\* UpdateNext with the reset loop placed before the observer loop.
UpdateNextResetFirst(at, obs, i) ==
    CASE at = "gather"   -> "reset"
      [] at = "reset"    -> IF i <= Len(obs) THEN "observer" ELSE "update"
      [] at = "observer" -> IF i <= Len(obs) THEN "observer" ELSE "update"

\* The order of the steps of one entity's update pass: gather, then every
\* observer, then reset.  i is the index of the next observer.
UpdateNext(at, obs, i) ==
    CASE at = "gather"   -> IF i <= Len(obs) THEN "observer" ELSE "reset"
      [] at = "observer" -> IF i <= Len(obs) THEN "observer" ELSE "reset"
      [] at = "reset"    -> "update"

\* The step that follows a delivery at step k of path p.  A consumed event
\* skips the rest of its phase; after the capturing phase of DownUp the
\* bubbling phase is run (cont) or not.
PhaseEnd(p, k) ==
    CHOOSE j \in k..Len(p) : /\ \A i \in k..j : p[i].phase = p[k].phase
                             /\ (j < Len(p) => p[j + 1].phase # p[k].phase)

\* StepAfter without the consumed test.
StepAfterIgnoringConsumed(p, k, cons, cont) == k + 1

StepAfter(p, k, cons, cont) ==
    IF ~cons THEN k + 1
    ELSE IF cont THEN PhaseEnd(p, k) + 1
    ELSE Len(p) + 1

\* History helpers.
BeginPhase(h, ph) == IF h.phases # <<>> /\ h.phases[Len(h.phases)] = ph THEN h
                     ELSE [h EXCEPT !.phases = Append(@, ph)]
Recorded(h, eff) ==
    CASE eff[1] = "rebuild" -> [h EXCEPT !.pending = TRUE]
      [] eff[1] = "dirty"   -> [h EXCEPT !.marked = TRUE]
      [] OTHER              -> h

\* ------------------------------------------------------------ startup
\* Application::run up to the event loop: the builder closure builds the
\* tree, registers the views and attaches the models, some of them changed.
Run ==
    /\ pc = "new"
    /\ \E eff \in BuilderEffects(builder), D \in InitiallyDirty(builder) :
         LET t == BuildSubtree(tree, Root)
             md == AttachModels(builder, model_data, SeqSet(TreeIter(t)))
         IN /\ tree' = t
            /\ views' = views \cup Descendants(t, Root)
            /\ model_data' = [e \in Entities |->
                  [i \in 1..Len(md[e]) |-> [md[e][i] EXCEPT !.dirty = (<<e, i>> \in D)]]]
            /\ count' = Len(t.children[Root])
            /\ needs_rebuild' = FlagAfter(eff, needs_rebuild)
            /\ hist' = Recorded(hist, eff)
    /\ pc' = "idle"
    /\ UNCHANGED <<builder, current, event_queue, hovered, focused, dispatchVars, updateVars>>

\* ------------------------------------------------- platform callbacks
\* CursorMoved: apply_hover sets the hovered entity to the one under the pointer.
CursorMoved ==
    /\ pc = "idle"
    /\ \E e \in SeqSet(TreeIter(tree)) : hovered' = e
    /\ UNCHANGED <<builder, pc, tree, views, model_data, current, count, event_queue, focused,
                   needs_rebuild, dispatchVars, updateVars, hist>>

\* MouseInput, pressed or released.
MouseInput ==
    /\ pc = "idle"
    /\ Len(event_queue) < MaxQueue
    /\ \E kind \in {"MouseDown", "MouseUp"} :
         event_queue' = PushBack(event_queue, NewEvent(kind, hovered, "Up"))
    /\ UNCHANGED <<builder, pc, tree, views, model_data, current, count, hovered, focused,
                   needs_rebuild, dispatchVars, updateVars, hist>>

\* KeyboardInput, pressed or released.
KeyboardInput ==
    /\ pc = "idle"
    /\ Len(event_queue) < MaxQueue
    /\ \E kind \in {"KeyDown", "KeyUp"} :
         event_queue' = PushBack(event_queue, NewEvent(kind, KeyTarget(focused, hovered), "DownUp"))
    /\ UNCHANGED <<builder, pc, tree, views, model_data, current, count, hovered, focused,
                   needs_rebuild, dispatchVars, updateVars, hist>>

\* ReceivedCharacter with the target selection of KeyboardInput.
ReceivedCharacterFallback ==
    /\ pc = "idle"
    /\ Len(event_queue) < MaxQueue
    /\ event_queue' = PushBack(event_queue, NewEvent("CharInput", KeyTarget(focused, hovered), "Down"))
    /\ UNCHANGED <<builder, pc, tree, views, model_data, current, count, hovered, focused,
                   needs_rebuild, dispatchVars, updateVars, hist>>

\* ReceivedCharacter.
ReceivedCharacter ==
    /\ pc = "idle"
    /\ Len(event_queue) < MaxQueue
    /\ event_queue' = PushBack(event_queue, NewEvent("CharInput", focused, "Down"))
    /\ UNCHANGED <<builder, pc, tree, views, model_data, current, count, hovered, focused,
                   needs_rebuild, dispatchVars, updateVars, hist>>

\* RedrawRequested that takes an event off the queue while painting.
RedrawRequestedFlushing ==
    /\ pc \in {"idle", "paint"}
    /\ pc' = "idle"
    /\ event_queue' = IF event_queue = <<>> THEN event_queue ELSE Tail(event_queue)
    /\ hist' = [hist EXCEPT !.painted = TRUE]
    /\ UNCHANGED <<builder, tree, views, model_data, current, count, hovered, focused,
                   needs_rebuild, dispatchVars, updateVars>>

\* RedrawRequested: paints from the tree, the cache and the style, which it
\* only reads.  The platform delivers it after a tick that requested a redraw
\* (pc = "paint") and whenever the window is exposed.
RedrawRequested ==
    /\ pc \in {"idle", "paint"}
    /\ pc' = "idle"
    /\ hist' = [hist EXCEPT !.painted = TRUE]
    /\ UNCHANGED <<ctx, dispatchVars, updateVars>>

\* CloseRequested: the event loop exits.
CloseRequested ==
    /\ pc = "idle"
    /\ pc' = "exit"
    /\ UNCHANGED <<ctx, dispatchVars, updateVars, hist>>

\* ------------------------------------------------ the tick: rebuild phase
\* MainEventsCleared: the tick starts; the rebuild flag is tested and the
\* insertion cursor reset.
MainEventsCleared ==
    /\ pc = "idle"
    /\ pc' = NextPhase("start", needs_rebuild)
    /\ current' = IF needs_rebuild THEN Root ELSE current
    /\ count' = IF needs_rebuild THEN 0 ELSE count
    /\ hist' = [hist EXCEPT !.painted = FALSE,
                            !.needsAtStart = needs_rebuild,
                            !.pendingAtStart = hist.pending,
                            !.dirtyAtStart = {m \in ModelIds(model_data) : IsDirty(model_data[m[1]][m[2]])}]
    /\ UNCHANGED <<builder, tree, views, model_data, event_queue, hovered, focused, needs_rebuild,
                   dispatchVars, updateVars>>

\* (builder)(&mut context)
InvokeBuilder ==
    /\ pc = "builder"
    /\ \E eff \in BuilderEffects(builder) :
         LET t == BuildSubtree(tree, current)
         IN /\ tree' = t
            /\ views' = views \cup Descendants(t, Root)
            /\ model_data' = AttachModels(builder, model_data, SeqSet(TreeIter(t)))
            /\ count' = Len(t.children[current])
            /\ needs_rebuild' = FlagAfter(eff, needs_rebuild)
            /\ hist' = Recorded([BeginPhase(hist, "rebuild") EXCEPT
                                     !.builderCalls = @ + 1, !.builderAt = current,
                                     !.pending = FALSE], eff)
    /\ pc' = "clear"
    /\ UNCHANGED <<builder, current, event_queue, hovered, focused, dispatchVars, updateVars>>

\* context.enviroment.needs_rebuild = false
ClearNeedsRebuild ==
    /\ pc = "clear"
    /\ needs_rebuild' = FALSE
    /\ pc' = NextPhase("clear", needs_rebuild)
    /\ UNCHANGED <<builder, tree, views, model_data, current, count, event_queue, hovered, focused,
                   dispatchVars, updateVars, hist>>

\* -------------------------------------------------- the tick: event flush
\* VecDeque::pop_front: the queue without its front, and the front taken
\* (None on an empty queue, for which nothing is dispatched).
PopFront(q) == IF q = <<>> THEN q ELSE Tail(q)
Front(q) == IF q = <<>> THEN NoEvent ELSE Head(q)

\* IsEmpty that reports every queue empty.
IsEmptyAlways(q) == TRUE

\* IsEmpty that reports no queue empty.
IsEmptyNever(q) == FALSE

\* VecDeque::is_empty, the only test of the flush loop.
IsEmpty(q) == q = <<>>

\* while !event_queue.is_empty() { flush_events }: the front event is taken
\* off the queue and its propagation path resolved against the tree.
FlushEvents ==
    /\ pc = "flush"
    /\ ~IsEmpty(event_queue)
    /\ ev' = Front(event_queue)
    /\ event_queue' = PopFront(event_queue)
    /\ path' = PropagationPath(tree, Front(event_queue).target, Front(event_queue).prop)
    /\ step' = 1
    /\ consumed' = FALSE
    /\ hist' = [BeginPhase(hist, "flush") EXCEPT !.visited = <<>>, !.dispatched = TRUE]
    /\ pc' = "dispatch"
    /\ UNCHANGED <<builder, tree, views, model_data, current, count, hovered, focused, needs_rebuild,
                   updateVars>>

\* One step of the propagation path: the handler of the entity's view, when it
\* has one, is called with the event and the context.
Deliver ==
    /\ pc = "dispatch"
    /\ step <= Len(path)
    /\ LET e == path[step].entity
       IN IF e \in views
          THEN \E eff \in HandlerEffects(builder, e, model_data), cont \in BOOLEAN :
                 /\ Allowed(eff, event_queue)
                 /\ event_queue' = QueueAfter(eff, e, event_queue)
                 /\ needs_rebuild' = FlagAfter(eff, needs_rebuild)
                 /\ model_data' = ModelsAfter(eff, model_data)
                 /\ focused' = FocusAfter(eff, e, focused)
                 /\ consumed' = (consumed \/ eff[1] = "consume")
                 /\ step' = StepAfter(path, step, eff[1] = "consume", cont)
                 /\ hist' = Recorded([hist EXCEPT
                        !.visited = Append(@, Visit(path[step], TRUE, eff[1] = "consume")),
                        !.focusSet = @ \/ eff[1] \in {"focus", "blur"}], eff)
          ELSE /\ step' = step + 1
               /\ hist' = [hist EXCEPT !.visited = Append(@, Visit(path[step], FALSE, FALSE))]
               /\ UNCHANGED <<event_queue, needs_rebuild, model_data, focused, consumed>>
    /\ pc' = IF step' > Len(path) THEN "dispatched" ELSE "dispatch"
    /\ UNCHANGED <<builder, tree, views, current, count, hovered, ev, path, updateVars>>

\* The dispatch of the event is over; back to the loop test.
DispatchReturn ==
    /\ pc = "dispatched"
    /\ pc' = "flush"
    /\ ev' = NoEvent /\ path' = <<>> /\ step' = 1 /\ consumed' = FALSE
    /\ hist' = [hist EXCEPT !.visited = <<>>]
    /\ UNCHANGED <<ctx, updateVars>>

\* The queue is empty: the loop ends; context.tree.clone().into_iter().
StartUpdates ==
    /\ pc = "flush"
    /\ IsEmpty(event_queue)
    /\ pc' = NextPhase("flush", needs_rebuild)
    /\ snapshot' = TreeIter(tree)
    /\ hist' = [BeginPhase(hist, "flush") EXCEPT !.treeAtUpdate = tree,
                                                  !.currentAtUpdate = current,
                                                  !.countAtUpdate = count]
    /\ UNCHANGED <<ctx, dispatchVars, entity, observers, oi, view, prev, prev_count>>

\* ---------------------------------------------- the tick: data-driven update
Op(op, arg) == <<op, arg>>

RECURSIVE GatherOps(_, _)
GatherOps(model_list, i) ==
    IF i > Len(model_list) THEN <<>>
    ELSE (IF IsDirty(model_list[i]) THEN <<Op("update", i)>> ELSE <<>>) \o GatherOps(model_list, i + 1)

ResetOps(model_list) == [i \in 1..Len(model_list) |-> Op("reset", i)]

\* IterNext on the live tree: entities no longer in it are passed over.
IterNextLive(snap, t) == SelectSeq(Tail(snap), LAMBDA e : InTree(t, e))

\* The iterator of the clone after it has yielded its next entity: what it
\* has still to yield does not depend on the live tree t.
IterNext(snap, t) == Tail(snap)

\* The next entity of the snapshot; the observers of its dirty models are gathered.
Gather ==
    /\ pc = "update"
    /\ snapshot # <<>>
    /\ entity' = Head(snapshot)
    /\ snapshot' = IterNext(snapshot, tree)
    /\ observers' = GatherObservers(model_data[Head(snapshot)])
    /\ oi' = 1
    /\ hist' = [BeginPhase(hist, "update") EXCEPT !.ops = GatherOps(model_data[Head(snapshot)], 1),
                                                   !.passes = Append(@, Head(snapshot)),
                                                   !.late = {}, !.skips = <<>>]
    /\ pc' = UpdateNext("gather", observers', 1)
    /\ UNCHANGED <<ctx, dispatchVars, view, prev, prev_count>>

\* context.views.remove(observer)
ViewsRemove(vs, o) == vs \ {o}

\* ViewsInsert that drops the view.
ViewsInsertDropped(vs, o) == vs

\* context.views.insert(*observer, view)
ViewsInsert(vs, o) == vs \cup {o}

\* if let Some(view) = context.views.remove(observer): the view is checked out
\* and the cursor moved to the observer.
Checkout ==
    /\ pc = "observer"
    /\ observers[oi] \in views
    /\ views' = ViewsRemove(views, observers[oi])
    /\ view' = observers[oi]
    /\ prev' = current
    /\ current' = observers[oi]
    /\ prev_count' = count
    /\ count' = 0
    /\ pc' = "body"
    /\ UNCHANGED <<builder, tree, model_data, event_queue, hovered, focused, needs_rebuild,
                   dispatchVars, snapshot, entity, observers, oi, hist>>

\* SkipObserver that gives up the observers that remain.
SkipObserverBreak ==
    /\ pc = "observer"
    /\ observers[oi] \notin views
    /\ oi' = Len(observers) + 1
    /\ pc' = UpdateNext("observer", observers, Len(observers) + 1)
    /\ hist' = [hist EXCEPT !.skips = Append(@, oi)]
    /\ UNCHANGED <<ctx, dispatchVars, snapshot, entity, observers, view, prev, prev_count>>

\* The observer has no registered view: nothing is done for it.
SkipObserver ==
    /\ pc = "observer"
    /\ observers[oi] \notin views
    /\ oi' = oi + 1
    /\ pc' = UpdateNext("observer", observers, oi + 1)
    /\ hist' = [hist EXCEPT !.skips = Append(@, oi)]
    /\ UNCHANGED <<ctx, dispatchVars, snapshot, entity, observers, view, prev, prev_count>>

\* view.body(&mut context)
Body ==
    /\ pc = "body"
    /\ \E eff \in BodyEffects(builder, model_data) :
         /\ Allowed(eff, event_queue)
         /\ eff[1] = "remove" => FirstChild(tree, view) # Null
         /\ LET built == BuildSubtree(tree, view)
                gone == SeqSet(PreOrder(tree, FirstChild(tree, view)))
            IN /\ tree' = CASE eff[1] = "build" -> built
                            [] eff[1] = "remove" -> TreeRemove(tree, FirstChild(tree, view))
                            [] OTHER -> tree
               /\ views' = CASE eff[1] = "build" -> views \cup Descendants(built, view)
                             [] eff[1] = "remove" -> views \ gone
                             [] OTHER -> views
               /\ model_data' = CASE eff[1] = "build" -> AttachModels(builder, model_data, Descendants(built, view))
                                  [] eff[1] = "remove" -> ReleaseModels(model_data, gone)
                                  [] OTHER -> ModelsAfter(eff, model_data)
               /\ count' = IF eff[1] = "build" THEN Len(built.children[view]) ELSE count
         /\ event_queue' = QueueAfter(eff, view, event_queue)
         /\ needs_rebuild' = FlagAfter(eff, needs_rebuild)
         /\ hist' = Recorded([hist EXCEPT !.rebuilt[view] = @ + 1,
                                           !.ops = Append(@, Op("body", view)),
                                           !.late = IF eff[1] = "dirty" THEN @ \cup {eff[2]} ELSE @], eff)
    /\ pc' = "checkin"
    /\ UNCHANGED <<builder, current, hovered, focused, dispatchVars, updateVars>>

\* Checkin that leaves the child counter as the body left it.
CheckinKeepCount ==
    /\ pc = "checkin"
    /\ current' = prev
    /\ views' = ViewsInsert(views, view)
    /\ view' = Null
    /\ oi' = oi + 1
    /\ pc' = UpdateNext("observer", observers, oi + 1)
    /\ UNCHANGED <<builder, tree, model_data, count, event_queue, hovered, focused, needs_rebuild,
                   dispatchVars, snapshot, entity, observers, prev, prev_count, hist>>

\* The cursor is restored and the view put back under the same entity.
Checkin ==
    /\ pc = "checkin"
    /\ current' = prev
    /\ count' = prev_count
    /\ views' = ViewsInsert(views, view)
    /\ view' = Null
    /\ oi' = oi + 1
    /\ pc' = UpdateNext("observer", observers, oi + 1)
    /\ UNCHANGED <<builder, tree, model_data, event_queue, hovered, focused, needs_rebuild,
                   dispatchVars, snapshot, entity, observers, prev, prev_count, hist>>

\* for model in model_list.iter_mut() { model.reset() }
ResetModels ==
    /\ pc = "reset"
    /\ model_data' = [model_data EXCEPT ![entity] = ResetAll(@)]
    /\ hist' = [hist EXCEPT !.ops = @ \o ResetOps(model_data[entity])]
    /\ pc' = UpdateNext("reset", observers, oi)
    /\ UNCHANGED <<builder, tree, views, current, count, event_queue, hovered, focused, needs_rebuild,
                   dispatchVars, updateVars>>

\* The snapshot is exhausted: the update loop ends.
UpdatesDone ==
    /\ pc = "update"
    /\ snapshot = <<>>
    /\ pc' = NextPhase("update", needs_rebuild)
    /\ entity' = Null /\ observers' = <<>> /\ oi' = 1
    /\ hist' = [BeginPhase(hist, "update") EXCEPT !.ops = <<>>, !.late = {}, !.skips = <<>>]
    /\ UNCHANGED <<ctx, dispatchVars, snapshot, view, prev, prev_count>>

\* ------------------------------------------- the tick: layout and redraw
\* morphorm::layout(&mut context.cache, &context.tree, &context.style)
Layout ==
    /\ pc = "layout"
    /\ pc' = NextPhase("layout", needs_rebuild)
    /\ hist' = BeginPhase(hist, "layout")
    /\ UNCHANGED <<ctx, dispatchVars, updateVars>>

\* handle.window().request_redraw()
RequestRedraw ==
    /\ pc = "redraw"
    /\ pc' = NextPhase("redraw", needs_rebuild)
    /\ hist' = [BeginPhase(hist, "redraw") EXCEPT !.redraws = @ + 1]
    /\ UNCHANGED <<ctx, dispatchVars, updateVars>>

\* The callback returns to the event loop, which delivers the redraw requested.
TickReturn ==
    /\ pc = "done"
    /\ pc' = "paint"
    /\ hist' = [NoHist EXCEPT !.pending = hist.pending, !.focusSet = hist.focusSet]
    /\ UNCHANGED <<ctx, dispatchVars, updateVars>>

Next ==
    \/ Run
    \/ CursorMoved \/ MouseInput \/ KeyboardInput \/ ReceivedCharacter
    \/ RedrawRequested \/ CloseRequested
    \/ MainEventsCleared \/ InvokeBuilder \/ ClearNeedsRebuild
    \/ FlushEvents \/ Deliver \/ DispatchReturn \/ StartUpdates
    \/ Gather \/ Checkout \/ SkipObserver \/ Body \/ Checkin \/ ResetModels \/ UpdatesDone
    \/ Layout \/ RequestRedraw \/ TickReturn

Spec == Init /\ [][Next]_vars

\* The steps of Application::run that are sequential code: once the callback
\* is entered each of them is taken (handlers, bodies and the builder return).
TickSteps ==
    \/ Run
    \/ InvokeBuilder \/ ClearNeedsRebuild
    \/ FlushEvents \/ Deliver \/ DispatchReturn \/ StartUpdates
    \/ Gather \/ Checkout \/ SkipObserver \/ Body \/ Checkin \/ ResetModels \/ UpdatesDone
    \/ Layout \/ RequestRedraw \/ TickReturn

\* The steps of the form application: it has no model and requests no
\* rebuild, so the builder is not invoked again and no observer is gathered;
\* the other steps of Next are never enabled in it.
FormNext ==
    \/ Run
    \/ CursorMoved \/ MouseInput \/ KeyboardInput \/ ReceivedCharacter
    \/ RedrawRequested \/ CloseRequested
    \/ MainEventsCleared
    \/ FlushEvents \/ Deliver \/ DispatchReturn \/ StartUpdates
    \/ Gather \/ ResetModels \/ UpdatesDone
    \/ Layout \/ RequestRedraw \/ TickReturn

\* Application::run of the form application, whose handlers enqueue events,
\* with the callback running to its end once entered.
FormInit == Init /\ builder = "form"
LiveSpec == FormInit /\ [][FormNext]_vars /\ WF_vars(TickSteps)

\* ================================================================ claims
IsPrefix(s, t) == Len(s) <= Len(t) /\ \A i \in 1..Len(s) : s[i] = t[i]
Last(s) == s[Len(s)]
InTick == pc \notin {"new", "idle", "paint", "exit"}
InDispatch == pc \in {"dispatch", "dispatched"}
InPass == pc \in {"observer", "body", "checkin", "reset"}

\* The phases of a tick, in the order the orchestrator is to run them.
ExpectedPhases(nr) ==
    (IF nr THEN <<"rebuild">> ELSE <<>>) \o <<"flush", "update", "layout", "redraw">>

\* C1: in every tick the phases begin in the order rebuild (if needs_rebuild was
\* set at tick start), flush, update, layout, redraw, none begun twice; events
\* are dispatched only in the flush phase and, when needs_rebuild was set, only
\* after the builder ran once with the cursor at root; observers are rebuilt
\* only in the update phase; the redraw is requested once, last.
C1_PhaseOrder ==
    /\ IsPrefix(hist.phases, ExpectedPhases(hist.needsAtStart))
    /\ InDispatch => /\ Last(hist.phases) = "flush"
                     /\ hist.needsAtStart => (hist.builderCalls = 1 /\ hist.builderAt = Root)
    /\ InPass => Last(hist.phases) = "update"
    /\ hist.redraws = (IF pc = "done" THEN 1 ELSE 0)
    /\ pc = "done" => hist.phases = ExpectedPhases(hist.needsAtStart)
    /\ hist.builderCalls = (IF hist.needsAtStart /\ pc # "builder" THEN 1 ELSE 0)

\* C1 witness: a tick that rebuilt, dispatched an event and rebuilt an observer
\* has requested its redraw.
C1_Witness ==
    /\ pc = "done" /\ hist.needsAtStart /\ hist.dispatched
    /\ hist.phases = <<"rebuild", "flush", "update", "layout", "redraw">>

\* C2 (as claimed): at the end of a tick every model that was dirty at its
\* start is clean and each of its observers had its body run exactly once
\* (stated for the ticks in which no handler and no body changes a model).
C2_RoundTripExactlyOnce ==
    (pc = "done" /\ ~hist.marked) =>
       \A m \in hist.dirtyAtStart \cap ModelIds(model_data) :
          /\ ~IsDirty(model_data[m[1]][m[2]])
          /\ \A o \in SeqSet(Update(model_data[m[1]][m[2]])) : hist.rebuilt[o] = 1

\* The rank of an operation of an entity pass.
OpRank(o) == CASE o[1] = "update" -> 1 [] o[1] = "body" -> 2 [] o[1] = "reset" -> 3

\* The observers the models named by the update operations report, in order.
RECURSIVE ObserversOf(_, _)
ObserversOf(model_list, ops) ==
    IF ops = <<>> THEN <<>>
    ELSE (IF Head(ops)[1] = "update" THEN model_list[Head(ops)[2]].observers ELSE <<>>)
         \o ObserversOf(model_list, Tail(ops))

\* C3: in the pass of an entity the update() calls (in the stored order of
\* the models) all precede the body runs, which all precede the resets; no
\* model of the entity is reset while observers remain to be rebuilt, and the
\* bodies run are those of the observers gathered, in the gathered order.
C3_GatherRebuildReset ==
    LET ops == hist.ops
        bodies == SelectSeq(ops, LAMBDA o : o[1] = "body")
        updates == SelectSeq(ops, LAMBDA o : o[1] = "update")
    IN /\ \A i, j \in 1..Len(ops) : i < j => OpRank(ops[i]) <= OpRank(ops[j])
       /\ \A i, j \in 1..Len(updates) : i < j => updates[i][2] < updates[j][2]
       /\ pc \in {"observer", "body", "checkin"} => \A i \in 1..Len(ops) : ops[i][1] # "reset"
       /\ InPass => /\ observers = ObserversOf(BuiltModels[entity], updates)
                    /\ Len(bodies) <= Len(observers)
                    /\ \A i \in 1..Len(bodies) : SeqHas(observers, bodies[i][2])
       /\ pc = "reset" => oi = Len(observers) + 1

\* C3 witness: a pass that called update(), ran two bodies and reset two models.
C3_Witness ==
    /\ pc = "update" /\ Len(hist.ops) >= 5
    /\ hist.ops[1][1] = "update" /\ hist.ops[2][1] = "body" /\ hist.ops[3][1] = "body"
    /\ Last(hist.ops) = Op("reset", 2)

\* C4: when an entity owns two models of which one is dirty at gathering,
\* update() is called only on the dirty one, only its observers are gathered
\* and rebuilt, reset is then called on both, and a reset of a clean model
\* leaves the model as it was.
C4_OneDirtyOneClean ==
    /\ [](InPass /\ Len(model_data[entity]) = 2 =>
            LET ops == hist.ops
                updates == SelectSeq(ops, LAMBDA o : o[1] = "update")
                resets == SelectSeq(ops, LAMBDA o : o[1] = "reset")
            IN Len(updates) = 1 =>
                 /\ observers = BuiltModels[entity][updates[1][2]].observers
                 /\ \A i \in 1..Len(ops) : ops[i][1] = "body" => SeqHas(observers, ops[i][2])
                 /\ resets # <<>> => resets = <<Op("reset", 1), Op("reset", 2)>>)
    /\ [][pc = "reset" =>
            \A i \in 1..Len(model_data[entity]) :
               /\ ~IsDirty(model_data'[entity][i])
               /\ ~IsDirty(model_data[entity][i]) => model_data'[entity][i] = model_data[entity][i]]_vars

\* C4 witness: the root's second model was dirty and its first clean; the one
\* observer was rebuilt and both models were reset.
C4_Witness ==
    /\ pc = "update" /\ entity = Root
    /\ hist.ops = <<Op("update", 2), Op("body", 2), Op("reset", 1), Op("reset", 2)>>

\* C5: every step leaves the queue alone, appends one event at its tail or
\* takes the event at its head; an append starts no dispatch (the event being
\* dispatched is as before and no step is taken but that of the handler that
\* enqueues), and the head is taken only while no dispatch is in progress,
\* becoming the event dispatched.
C5_FifoNoSyncDispatch ==
    [][ \/ event_queue' = event_queue
        \/ /\ Len(event_queue') = Len(event_queue) + 1
           /\ SubSeq(event_queue', 1, Len(event_queue)) = event_queue
           /\ ev' = ev
           /\ pc = "idle" => (pc' = "idle" /\ hist' = hist)
           /\ hist'.visited = hist.visited \/
                (pc = "dispatch" /\ Len(hist'.visited) = Len(hist.visited) + 1)
        \/ /\ event_queue # <<>>
           /\ event_queue' = Tail(event_queue)
           /\ ev' = Head(event_queue)
           /\ pc = "flush" /\ ev = NoEvent
      ]_vars

\* C5 witness: a handler has appended an event behind one that was waiting.
C5_Witness ==
    /\ InDispatch /\ Len(event_queue) = 2
    /\ event_queue[2].kind = "Custom" /\ event_queue[1].kind # "Custom"

\* The ancestor chain of e, inclusive, e first, read off the parents.
RECURSIVE Ancestors(_)
Ancestors(e) ==
    IF e \notin Entities \/ e = Root \/ tree.parent[e] = Null THEN <<e>>
    ELSE <<e>> \o Ancestors(tree.parent[e])

\* The entities an unconsumed event on e visits, by propagation.
ExpectedVisits(e, prop) ==
    CASE prop = "Direct" -> <<e>>
      [] prop = "Up"     -> Ancestors(e)
      [] prop = "Down"   -> Reverse(Ancestors(e))
      [] prop = "DownUp" -> Reverse(Ancestors(e)) \o Ancestors(e)

VisitedEntities == [i \in 1..Len(hist.visited) |-> hist.visited[i].entity]
NoneConsumed == \A i \in 1..Len(hist.visited) : ~hist.visited[i].consumed

\* C6: while no handler has consumed the event being dispatched, the entities
\* visited so far are the first ones of the expected sequence (target to root
\* for Up, root to target for Down, Down then Up for DownUp, the target alone
\* for Direct), and the whole sequence once the dispatch is over.
C6_PropagationPaths ==
    InDispatch /\ NoneConsumed =>
       /\ IsPrefix(VisitedEntities, ExpectedVisits(ev.target, ev.prop))
       /\ pc = "dispatched" => VisitedEntities = ExpectedVisits(ev.target, ev.prop)

\* C6 witness: an unconsumed DownUp event on the grandchild 3 was delivered
\* root, 1, 3, 3, 1, root.
C6_Witness ==
    /\ pc = "dispatched" /\ NoneConsumed /\ ev.prop = "DownUp" /\ ev.target = 3
    /\ VisitedEntities = <<Root, 1, 3, 3, 1, Root>>

\* C7: a step whose handler consumed the event is the last step of its phase
\* that is taken, and when the dispatch is over the loop goes on with the
\* queue as the dispatch left it.
C7_ConsumeHalts ==
    /\ [](\A i, j \in 1..Len(hist.visited) :
            (i < j /\ hist.visited[i].consumed) => hist.visited[j].phase # hist.visited[i].phase)
    /\ [][pc = "dispatched" => (pc' = "flush" /\ event_queue' = event_queue)]_vars

\* C7 witness: an Up event on 3 was consumed at its first step, nothing else
\* was visited, and another event waits in the queue.
C7_Witness ==
    /\ pc = "dispatched" /\ ev.prop = "Up" /\ ev.target = 3
    /\ Len(hist.visited) = 1 /\ hist.visited[1].consumed
    /\ event_queue # <<>>

\* C8: a keyboard signal appends exactly one KeyDown or KeyUp event with
\* DownUp propagation, targeted at the focused entity when it is not null and
\* at the entity hovered at that moment otherwise.
C8_KeyTarget ==
    [][KeyboardInput =>
         \E kind \in {"KeyDown", "KeyUp"} :
            event_queue' = event_queue \o
               << [kind |-> kind,
                   target |-> IF focused # Null THEN focused ELSE hovered,
                   prop |-> "DownUp"] >>]_vars

\* C8 witness: no entity is focused and a key event for the hovered entity 3
\* is queued behind another event.
C8_Witness ==
    /\ pc = "idle" /\ Len(event_queue) = 2 /\ hovered = 3 /\ focused = Null
    /\ event_queue[2] = NewEvent("KeyUp", 3, "DownUp")

\* C9 (as claimed): a key press that arrives before any view has set the
\* focus is targeted at the hovered entity, no entity being focused.
C9_KeyBeforeFocusGoesToHovered ==
    [][(KeyboardInput /\ ~hist.focusSet) =>
          Last(event_queue').target = hovered]_vars

\* C10 (as claimed): once the rebuild phase of a tick is over the builder has
\* run exactly once if a rebuild was requested since it last started, and not
\* at all if needs_rebuild was false at tick start; never more than once.
C10_RebuildCoalesced ==
    (InTick /\ pc \notin {"builder", "clear"}) =>
       /\ hist.builderCalls = (IF hist.pendingAtStart THEN 1 ELSE 0)
       /\ ~hist.needsAtStart => hist.builderCalls = 0

\* A handler enqueues an event during a dispatch.
HandlerEnqueues == pc = "dispatch" /\ Len(event_queue') = Len(event_queue) + 1

InFlush == pc \in {"flush", "dispatch", "dispatched"}

\* C11: the flush loop is left only on an empty queue, whatever the number of
\* dispatches before (no backpressure, no loop detection): a dispatch whose
\* handler enqueued returns to the loop test with a non-empty queue, so the
\* loop takes another event and the update, layout and redraw phases are not
\* begun; and unless handlers enqueue infinitely often, a flush phase that
\* has begun leaves the queue empty and the tick requests its redraw.
C11_FlushTermination ==
    /\ [][InFlush /\ ~InFlush' => (pc = "flush" /\ event_queue = <<>> /\ event_queue' = <<>>)]_vars
    /\ [][(HandlerEnqueues \/ (pc \in {"dispatch", "dispatched"} /\ event_queue # <<>>)) =>
            (InFlush' /\ event_queue' # <<>>)]_vars
    /\ ([]<><<HandlerEnqueues>>_vars \/ (InFlush ~> pc = "done"))

\* C11 witness: the event a handler enqueued while an earlier event of the
\* same kind was dispatched is itself being dispatched, and its handler has
\* enqueued again.
C11_Witness ==
    /\ pc = "dispatched" /\ ev.kind = "Custom"
    /\ event_queue # <<>> /\ Head(event_queue).kind = "Custom"

\* C12: the redraw callback leaves the tree, the view registry, the models
\* and their dirty flags, the event queue, hovered, focused, needs_rebuild and
\* the insertion cursor as they were, and runs no view body, no event handler
\* and no builder.
C12_RedrawReadsOnly ==
    [][RedrawRequested =>
          /\ UNCHANGED <<tree, views, model_data, event_queue, hovered, focused,
                         needs_rebuild, current, count>>
          /\ UNCHANGED <<dispatchVars, updateVars>>
          /\ hist'.rebuilt = hist.rebuilt /\ hist'.visited = hist.visited
          /\ hist'.builderCalls = hist.builderCalls /\ hist'.ops = hist.ops]_vars

\* C12 witness: a frame was painted while an event enqueued by a view body
\* was waiting in the queue and a model was dirty.
C12_Witness ==
    /\ pc = "idle" /\ hist.painted
    /\ event_queue # <<>> /\ Head(event_queue).kind = "Custom"
    /\ \E m \in ModelIds(model_data) : IsDirty(model_data[m[1]][m[2]])

\* C13: a flush phase that starts on an empty queue ends in its first step:
\* no event is taken, no handler is invoked, and the queue, the tree, the view
\* registry, the models, hovered, focused, needs_rebuild and the cursor are
\* left as they were, so that a second empty flush gives the state of the first.
C13_EmptyFlushNoOp ==
    [][(pc = "flush" /\ event_queue = <<>>) =>
          /\ pc' = "update"
          /\ UNCHANGED <<tree, views, model_data, event_queue, hovered, focused,
                         needs_rebuild, current, count>>
          /\ UNCHANGED dispatchVars
          /\ hist'.visited = hist.visited /\ hist'.dispatched = hist.dispatched]_vars

\* C13 witness: the flush phase of a tick has ended without a dispatch, a
\* model being dirty and a rebuild requested.
C13_Witness ==
    /\ pc = "update" /\ hist.phases = <<"flush">> /\ ~hist.dispatched
    /\ event_queue = <<>> /\ snapshot = TreeIter(tree)
    /\ \E m \in ModelIds(model_data) : IsDirty(model_data[m[1]][m[2]])

MouseKinds == {"MouseDown", "MouseUp"}

\* C14: a mouse-button signal appends exactly one MouseDown or MouseUp event
\* with Up propagation at the tail of the queue, targeted at the entity
\* hovered at that moment; a queued event changes with no step (the queue
\* only loses its head or gains a tail, whatever becomes of hovered), and
\* the mouse event dispatched is the one enqueued, delivered first to its
\* own target.
C14_MouseTargetFixed ==
    /\ [][MouseInput =>
             \E kind \in MouseKinds :
                event_queue' = event_queue \o
                   << [kind |-> kind, target |-> hovered, prop |-> "Up"] >>]_vars
    /\ [][hovered' # hovered => event_queue' = event_queue]_vars
    /\ [][\/ IsPrefix(event_queue, event_queue')
          \/ (event_queue # <<>> /\ event_queue' = Tail(event_queue) /\ ev' = Head(event_queue))]_vars
    /\ []((InDispatch /\ ev.kind \in MouseKinds) =>
             (ev.prop = "Up" /\ path[1].entity = ev.target /\
              (hist.visited # <<>> => hist.visited[1].entity = ev.target)))

\* C14 witness: a press enqueued while entity 1 was hovered is delivered to
\* entity 1 although entity 3 is hovered when it is flushed.
C14_Witness ==
    /\ pc = "dispatch" /\ ev = [kind |-> "MouseDown", target |-> 1, prop |-> "Up"]
    /\ hovered = 3
    /\ hist.visited # <<>> /\ hist.visited[1].entity = 1

\* C15: a character signal appends exactly one CharInput event with Down
\* propagation targeted at the focused entity, the null entity included (no
\* fallback to hovered); the dispatch of a CharInput event on the null entity
\* calls no handler and changes nothing of the context, and when it is over
\* the loop goes on with the events that wait.
C15_CharInputTarget ==
    /\ [][ReceivedCharacter =>
             event_queue' = event_queue \o
                << [kind |-> "CharInput", target |-> focused, prop |-> "Down"] >>]_vars
    /\ [][(InDispatch /\ ev.kind = "CharInput" /\ ev.target = Null) =>
             /\ UNCHANGED <<tree, views, model_data, event_queue, hovered, focused,
                            needs_rebuild, current, count>>
             /\ pc' = (IF pc = "dispatch" THEN "dispatched" ELSE "flush")
             /\ \A i \in 1..Len(hist'.visited) : ~hist'.visited[i].handled]_vars

\* C15 witness: no entity is focused, entity 3 is hovered, and the dispatch
\* of a CharInput event on the null entity is over without a handler called,
\* another event waiting.
C15_Witness ==
    /\ pc = "dispatched" /\ ev = [kind |-> "CharInput", target |-> Null, prop |-> "Down"]
    /\ focused = Null /\ hovered = 3
    /\ Len(hist.visited) = 1 /\ ~hist.visited[1].handled
    /\ event_queue # <<>>

InUpdate == pc \in {"update", "observer", "body", "checkin", "reset"}

\* C17: the entities the update loop visits are, in order, the first ones of
\* the pre-order traversal of the tree as it was when the phase started, and
\* all of them when the phase is over, whatever the bodies have inserted
\* into or removed from the tree meanwhile; the pass of a removed entity,
\* which owns no model any more, gathers no observer and runs no body.
C17_SnapshotTraversal ==
    /\ InUpdate => IsPrefix(hist.passes, PreOrder(hist.treeAtUpdate, Root))
    /\ pc \in {"layout", "redraw", "done"} => hist.passes = PreOrder(hist.treeAtUpdate, Root)
    /\ (InPass /\ ~InTree(tree, entity)) => (observers = <<>> /\ hist.ops = <<>>)

\* C17 witness: entity 3, removed by the body of 1 during the phase, was
\* visited all the same, and the phase is over.
C17_Witness ==
    /\ pc = "layout" /\ InTree(hist.treeAtUpdate, 3) /\ ~InTree(tree, 3)
    /\ hist.passes = <<Root, 1, 3, 2>>

\* An entity inserted by a body during the phase was not visited.
C17_InsertedNotVisited ==
    /\ pc = "layout" /\ ~InTree(hist.treeAtUpdate, 3) /\ InTree(tree, 3)
    /\ hist.passes = <<Root, 1, 2>>

\* The pass of `entity` is over and no other has begun.
PassOver == pc = "update" /\ entity # Null

\* C18: when the pass of an entity is over each of its models is clean,
\* reset having been called on every one of them; a model of the entity that
\* was clean at gathering and that a body changed during the pass is then
\* clean too, and the bodies run in the pass are those of the observers of
\* the models that were dirty at gathering, none being run for that change.
C18_ResetAfterPass ==
    PassOver =>
       LET ops == hist.ops
           updates == SelectSeq(ops, LAMBDA o : o[1] = "update")
           bodies == SelectSeq(ops, LAMBDA o : o[1] = "body")
           resets == SelectSeq(ops, LAMBDA o : o[1] = "reset")
           gathered == ObserversOf(BuiltModels[entity], updates)
       IN /\ \A i \in 1..Len(model_data[entity]) : ~IsDirty(model_data[entity][i])
          /\ resets = [i \in 1..Len(model_data[entity]) |-> Op("reset", i)]
          /\ \A m \in hist.late :
                (m[1] = entity /\ Op("update", m[2]) \notin SeqSet(updates)) =>
                   /\ ~IsDirty(model_data[entity][m[2]])
                   /\ [k \in 1..Len(bodies) |-> bodies[k][2]] = gathered

\* C18 witness: the first model of the root was dirty at gathering and its
\* second one clean; a body changed the second during the pass; 1 and 2 were
\* rebuilt for the first and both models are clean when the pass is over.
C18_Witness ==
    /\ PassOver /\ entity = Root /\ <<Root, 2>> \in hist.late
    /\ hist.ops = <<Op("update", 1), Op("body", 1), Op("body", 2), Op("reset", 1), Op("reset", 2)>>
    /\ ~IsDirty(model_data[Root][2])

\* The flush phase of the tick is over (or the loop waits for the next tick
\* after one).
AfterFlush == InUpdate \/ pc \in {"layout", "redraw", "done", "paint"}

\* C19: once the flush phase of a tick is over no event is taken off the
\* queue in that tick: through the update phase, layout, the redraw request
\* and the return of the callback the queue only grows, by the events the
\* bodies enqueue; an event is dispatched only in a flush phase, before any
\* entity pass of its tick and after the rebuild when there is one; and the
\* queue is empty when the flush phase ends.
C19_BodyEventsNextTick ==
    /\ [][AfterFlush => (IsPrefix(event_queue, event_queue') /\ ev' = NoEvent /\ ~InFlush')]_vars
    /\ [][(pc = "body" /\ event_queue' # event_queue) =>
             event_queue' = Append(event_queue, Last(event_queue'))]_vars
    /\ []((pc = "update" /\ hist.passes = <<>>) => event_queue = <<>>)
    /\ [](InDispatch => /\ Last(hist.phases) = "flush" /\ hist.passes = <<>>
                         /\ hist.needsAtStart => hist.builderCalls = 1)

\* C19 witness: the event a body of the data application enqueued in an
\* earlier tick is being dispatched in the flush phase of this one.
C19_Witness ==
    /\ builder = "data" /\ pc = "dispatch" /\ ev.kind = "Custom"
    /\ hist.phases = <<"flush">> /\ hist.passes = <<>>

\* A tick ends with an event enqueued by a body in the queue.
C19_QueueNotEmptyAtTickEnd ==
    /\ builder = "data" /\ pc = "done" /\ event_queue # <<>>
    /\ Head(event_queue).kind = "Custom"

\* The observers of the pass that were not found without a view, in order.
KeptObservers ==
    LET idx == [i \in 1..Len(observers) |-> i]
        kept == SelectSeq(idx, LAMBDA i : ~SeqHas(hist.skips, i))
    IN [k \in 1..Len(kept) |-> observers[kept[k]]]

\* C20: the step taken for an observer that has no registered view runs no
\* body, leaves the registry and the rest of the context as they were and
\* goes on to the next observer (to the reset after the last one); when the
\* pass is over the bodies run are those of all the other observers, in
\* order, and reset was called on every model of the entity.
C20_SkipUnregistered ==
    /\ [][(pc = "observer" /\ observers[oi] \notin views) =>
             /\ UNCHANGED <<tree, views, model_data, event_queue, hovered, focused,
                            needs_rebuild, current, count, observers, entity, snapshot>>
             /\ hist'.ops = hist.ops /\ hist'.rebuilt = hist.rebuilt
             /\ oi' = oi + 1
             /\ pc' = (IF oi < Len(observers) THEN "observer" ELSE "reset")]_vars
    /\ [](PassOver =>
             LET bodies == SelectSeq(hist.ops, LAMBDA o : o[1] = "body")
                 resets == SelectSeq(hist.ops, LAMBDA o : o[1] = "reset")
             IN /\ [k \in 1..Len(bodies) |-> bodies[k][2]] = KeptObservers
                /\ resets = [i \in 1..Len(model_data[entity]) |-> Op("reset", i)]
                /\ \A i \in 1..Len(model_data[entity]) : ~IsDirty(model_data[entity][i]))

\* C20 witness: in the pass of entity 1 the first observer, 3, removed in an
\* earlier tick, was found without a view; the body of the second, 2, ran and
\* the model of 1 was reset.
C20_Witness ==
    /\ PassOver /\ entity = 1 /\ observers = <<3, 2>> /\ hist.skips = <<1>>
    /\ hist.ops = <<Op("update", 1), Op("body", 2), Op("reset", 1)>>
    /\ ~IsDirty(model_data[1][1])

\* C21: a body starts with the insertion cursor on its observer and the
\* child counter at 0, the values of before the rebuild being saved; outside
\* a rebuild, from the start of the update phase to the end of the tick, the
\* cursor and the counter have the values they had when the phase started,
\* which are the values saved during every rebuild (each rebuild restores
\* what it found, whatever the body did to the counter).
C21_CursorRestored ==
    /\ pc = "body" => (current = view /\ count = 0)
    /\ pc \in {"body", "checkin"} =>
          /\ current = observers[oi]
          /\ prev = hist.currentAtUpdate /\ prev_count = hist.countAtUpdate
    /\ (pc \in {"update", "observer", "reset", "layout", "redraw", "done"}) =>
          (current = hist.currentAtUpdate /\ count = hist.countAtUpdate)

\* C21 witness: the body of 1 has built its child 3, which set the counter
\* to 1; the update phase is over with the cursor on the root and the
\* counter at 2, as they were when it started.
C21_Witness ==
    /\ pc = "layout" /\ hist.rebuilt[1] = 1
    /\ ~InTree(hist.treeAtUpdate, 3) /\ InTree(tree, 3)
    /\ current = Root /\ count = 2 /\ hist.countAtUpdate = 2

====
